---- MODULE Spec2Model ----
(***************************************************************************)
(* A model of snekbox's memory filesystem (src/snekbox/memfs.py) and of    *)
(* its file attachments (src/snekbox/snekio.py).                           *)
(*                                                                         *)
(* Three specifications share the variables:                               *)
(*   Spec     threads acquiring and releasing MemoryTempDir handles        *)
(*            concurrently (the name pool, the lock, the mounts);          *)
(*   SpecUse  one thread using one handle at a time, with the files of     *)
(*            its directory (allow_write, save_to, attachments);           *)
(*   SpecIO   the FileAttachment functions applied to bounded inputs.      *)
(***************************************************************************)
EXTENDS Integers, Sequences, FiniteSets, TLC

\* ------------------------------------------------------------ bounds
MaxThreads == 2
MaxNames == 2

Threads == 1..MaxThreads
\* The values uuid4() can return (memfs.py:78), a small name space so that
\* collisions with the pool happen.
Names == 1..MaxNames

\* ------------------------------------------------- program constants
\* self.path = None (memfs.py:62)
NoPath == 0
\* for _ in range(10) (memfs.py:77)
MaxAttempts == 10
\* Permission modes, octal in the source.
Mode777 == 511
Mode711 == 457
Mode555 == 365
\* No mode: the directory does not exist.
NoMode == 0

\* Owner, group and others may all write.
FullyWritable(mode) == mode = Mode777
\* Read and execute for all, write for none.
ReadExecOnly(mode) == mode = Mode555

VARIABLES
    assigned_names,   \* MemoryTempDir.assigned_names, the pool
    assignment_lock,  \* value of BoundedSemaphore(1): 1 free, 0 taken
    path,             \* path[t]: self.path of thread t's handle, a name or NoPath
    pc,               \* pc[t]: where thread t is
    attempt,          \* attempt[t]: iterations of the for loop done so far, 0 outside it
    name,             \* name[t]: the local `name` of __enter__, NoPath outside it
    err,              \* err[t]: what the last operation of t raised, or "none"
    fs,               \* fs[n]: the directory /snekbox/memfs/n
    yielded,          \* yielded[t]: what the last attachments() of t yielded
    io                \* the attachment codec's inputs and results (SpecIO)

memvars == <<assigned_names, assignment_lock, path, pc, attempt, name, err, fs, yielded>>
vars == <<assigned_names, assignment_lock, path, pc, attempt, name, err, fs, yielded, io>>

\* ------------------------------------------------------ the filesystem
\* A directory that does not exist.
Absent == [exists |-> FALSE, mounted |-> FALSE, mode |-> NoMode,
           home |-> FALSE, homeMode |-> NoMode, rootFiles |-> {}, homeEntries |-> {}]

\* mount_tmpfs(name), the call succeeding: d is fs[name] before, the result is
\* fs[name] after. An existing directory is returned as it is.
MountOk(d) ==
    IF ~d.exists
    THEN [Absent EXCEPT !.exists = TRUE, !.mounted = TRUE, !.mode = Mode711]
    ELSE d

\* mount_tmpfs(name), `mount` exiting non-zero: mkdir and chmod(0o777) are done,
\* check_call raises before chmod(0o711).
MountFailed(d) == [Absent EXCEPT !.exists = TRUE, !.mode = Mode777]

\* mount_tmpfs calls `mount` only for a directory that does not exist.
MountCalls(d) == ~d.exists

\* unmount_tmpfs calls `umount` only for a directory that exists.
UmountCalls(d) == d.exists

\* `umount` succeeding: the tmpfs and all in it are gone, the mount point below
\* it (made by mkdir, chmod 0o777) shows again.
Umounted(d) == [Absent EXCEPT !.exists = TRUE, !.mode = Mode777]

\* `umount` can succeed only on a mount point.
UmountCanSucceed(d) == d.mounted

\* ------------------------------------------------ snekio: path handling
\* A string is a sequence of characters, each a one-character string.
\* The segments of s between its "/" characters: s.split("/").
RECURSIVE SplitAt(_, _, _)
SplitAt(s, i, cur) ==
    IF i > Len(s) THEN <<cur>>
    ELSE IF s[i] = "/" THEN <<cur>> \o SplitAt(s, i + 1, <<>>)
    ELSE SplitAt(s, i + 1, Append(cur, s[i]))

Segments(s) == SplitAt(s, 1, <<>>)

\* The number of "/" characters s begins with.
RECURSIVE LeadingSlashes(_)
LeadingSlashes(s) ==
    IF Len(s) = 0 \/ s[1] # "/" THEN 0 ELSE 1 + LeadingSlashes(Tail(s))

\* The root of PurePosixPath(s): "//" for exactly two leading slashes, "/" for
\* any other number of them, none for a relative path.
PathRoot(s) ==
    IF LeadingSlashes(s) = 0 THEN <<>>
    ELSE IF LeadingSlashes(s) = 2 THEN <<"/", "/">>
    ELSE <<"/">>

\* A segment that pathlib keeps as a part: not empty and not ".".
KeptSegment(seg) == seg # <<>> /\ seg # <<".">>

\* Path(s).parts: the root, if any, then the kept segments.
PathParts(s) ==
    (IF PathRoot(s) = <<>> THEN <<>> ELSE <<PathRoot(s)>>)
        \o SelectSeq(Segments(s), KeptSegment)

\* Path(s).is_absolute()
IsAbsolute(s) == PathRoot(s) # <<>>

\* HasSeparator that finds nothing.
HasSeparatorNever(part) == FALSE

\* set(part) & {"\\", "/"}
HasSeparator(part) == \E i \in 1..Len(part) : part[i] \in {"\\", "/"}

\* set(part) == {"."}
DotOnly(part) == {part[i] : i \in 1..Len(part)} = {"."}

\* Path(directory, path).parts: an absolute path replaces the directory.
JoinParts(directory, p) ==
    IF IsAbsolute(p) THEN PathParts(p) ELSE PathParts(directory) \o PathParts(p)

\* Where the operating system finds the path with these parts: ".." steps to
\* the parent, and the parent of the root is the root. (No symbolic links: a
\* directory of the memory filesystem starts out empty.)
RECURSIVE Resolve(_, _)
Resolve(parts, done) ==
    IF parts = <<>> THEN done
    ELSE IF Head(parts) = <<".", ".">>
         THEN Resolve(Tail(parts), IF Len(done) > 1 THEN SubSeq(done, 1, Len(done) - 1) ELSE done)
         ELSE Resolve(Tail(parts), Append(done, Head(parts)))

\* a is b or a directory above b.
IsPrefix(a, b) == Len(a) <= Len(b) /\ SubSeq(b, 1, Len(a)) = a

\* ------------------------------------------------------ snekio: base64
\* The base64 alphabet, in the order of its values 0..63.
B64Alphabet ==
    << "A", "B", "C", "D", "E", "F", "G", "H", "I", "J", "K", "L", "M",
       "N", "O", "P", "Q", "R", "S", "T", "U", "V", "W", "X", "Y", "Z",
       "a", "b", "c", "d", "e", "f", "g", "h", "i", "j", "k", "l", "m",
       "n", "o", "p", "q", "r", "s", "t", "u", "v", "w", "x", "y", "z",
       "0", "1", "2", "3", "4", "5", "6", "7", "8", "9", "+", "/" >>

B64Chars == {B64Alphabet[i] : i \in 1..Len(B64Alphabet)}

\* The character of a 6-bit value, and the value of a character.
B64Char(v) == B64Alphabet[v + 1]
B64Value(c) == (CHOOSE i \in 1..Len(B64Alphabet) : B64Alphabet[i] = c) - 1

\* The characters of ASCII that the model's inputs use besides the alphabet.
AsciiOthers == {"=", "!", ".", "\\", "(", ")"}
IsAscii(c) == c \in B64Chars \cup AsciiOthers

\* b64encode(b): three bytes to four characters, the rest padded with "=".
RECURSIVE b64encode(_)
b64encode(b) ==
    IF Len(b) = 0 THEN <<>>
    ELSE IF Len(b) = 1 THEN
        << B64Char(b[1] \div 4), B64Char((b[1] % 4) * 16), "=", "=" >>
    ELSE IF Len(b) = 2 THEN
        << B64Char(b[1] \div 4), B64Char(((b[1] % 4) * 16) + (b[2] \div 16)),
           B64Char((b[2] % 16) * 4), "=" >>
    ELSE
        << B64Char(b[1] \div 4), B64Char(((b[1] % 4) * 16) + (b[2] \div 16)),
           B64Char(((b[2] % 16) * 4) + (b[3] \div 64)), B64Char(b[3] % 64) >>
            \o b64encode(SubSeq(b, 4, Len(b)))

\* binascii.a2b_base64(s) as b64decode calls it (not strict): characters
\* outside the alphabet are skipped, a pad sequence that completes a quad ends
\* the input, and a quad left incomplete at the end is an error. quad is the
\* position in the quad, left the bits carried, pads the "=" seen in a row
\* from position 2 on, out the bytes so far.
RECURSIVE a2b_base64(_, _, _, _, _, _)
a2b_base64(s, i, quad, left, pads, out) ==
    IF i > Len(s) THEN
        IF quad = 0 THEN [error |-> "none", bytes |-> out]
        ELSE [error |-> "binascii.Error", bytes |-> <<>>]
    ELSE IF s[i] = "=" THEN
        IF quad >= 2 /\ quad + pads + 1 >= 4 THEN [error |-> "none", bytes |-> out]
        ELSE a2b_base64(s, i + 1, quad, left, IF quad >= 2 THEN pads + 1 ELSE pads, out)
    ELSE IF s[i] \notin B64Chars THEN a2b_base64(s, i + 1, quad, left, pads, out)
    ELSE LET v == B64Value(s[i]) IN
        IF quad = 0 THEN a2b_base64(s, i + 1, 1, v, 0, out)
        ELSE IF quad = 1 THEN
            a2b_base64(s, i + 1, 2, v % 16, 0, Append(out, (left * 4) + (v \div 16)))
        ELSE IF quad = 2 THEN
            a2b_base64(s, i + 1, 3, v % 4, 0, Append(out, (left * 16) + (v \div 4)))
        ELSE a2b_base64(s, i + 1, 0, 0, 0, Append(out, (left * 64) + v))

\* b64decode(s) of a str: s.encode("ascii") raises ValueError for a character
\* that is not ASCII, then a2b_base64.
b64decode(s) ==
    IF \E i \in 1..Len(s) : ~IsAscii(s[i])
    THEN [error |-> "ValueError", bytes |-> <<>>]
    ELSE a2b_base64(s, 1, 0, 0, 0, <<>>)

\* ------------------------------------------------ snekio: FileAttachment
\* A FileAttachment: text says whether content is a str (a sequence of code
\* points) or bytes (a sequence of bytes).
Attachment(p, c, isText) == [path |-> p, content |-> c, text |-> isText]
NoAttachment == Attachment(<<>>, <<>>, FALSE)

\* The UTF-8 encoding of one code point (no surrogates among the inputs).
Utf8Char(cp) ==
    IF cp < 128 THEN <<cp>>
    ELSE IF cp < 2048 THEN <<192 + (cp \div 64), 128 + (cp % 64)>>
    ELSE IF cp < 65536 THEN
        <<224 + (cp \div 4096), 128 + ((cp \div 64) % 64), 128 + (cp % 64)>>
    ELSE <<240 + (cp \div 262144), 128 + ((cp \div 4096) % 64),
           128 + ((cp \div 64) % 64), 128 + (cp % 64)>>

\* str.encode("utf-8")
RECURSIVE Utf8(_)
Utf8(text) == IF text = <<>> THEN <<>> ELSE Utf8Char(Head(text)) \o Utf8(Tail(text))

\* FileAttachment.as_bytes
as_bytes(a) == IF a.text THEN Utf8(a.content) ELSE a.content

\* FileAttachment.size: len(self.content), of the str or of the bytes.
size(a) == Len(a.content)

\* The errors that are AttachmentError or a subclass of it.
AttachmentErrors == {"AttachmentError", "ParsingError", "IllegalPathError"}

Raised(e) == [tag |-> e, att |-> NoAttachment]
Returned(a) == [tag |-> "ok", att |-> a]

\* StoredPath with the parsed path written back in place of the name given.
RECURSIVE JoinWithSlash(_)
JoinWithSlash(parts) ==
    IF parts = <<>> THEN <<>>
    ELSE IF Len(parts) = 1 THEN parts[1]
    ELSE parts[1] \o <<"/">> \o JoinWithSlash(Tail(parts))
StoredPathNormalised(n) == JoinWithSlash(PathParts(n))

\* cls(name, content): the attachment keeps the name as it was given.
StoredPath(n) == n

\* The second validation with only the first part looked at.
HasDotOnlyPartFirst(parts) == DotOnly(parts[1])

\* any(set(part) == {"."} for part in parts)
HasDotOnlyPart(parts) == \E i \in 1..Len(parts) : DotOnly(parts[i])

\* FileAttachment.from_dict(data): data is a function from keys to values.
from_dict(data) ==
    IF "name" \notin DOMAIN data THEN Raised("KeyError")
    ELSE LET parts == PathParts(data.name) IN
        IF IsAbsolute(data.name) THEN Raised("IllegalPathError")
        ELSE IF parts = <<>> THEN Raised("IndexError")
        ELSE IF HasSeparator(parts[1]) THEN Raised("IllegalPathError")
        ELSE IF HasDotOnlyPart(parts) THEN Raised("IllegalPathError")
        ELSE LET decoded == b64decode(IF "content" \in DOMAIN data
                                      THEN data.content ELSE <<>>) IN
            IF decoded.error # "none" THEN Raised(decoded.error)
            ELSE Returned(Attachment(StoredPath(data.name), decoded.bytes, FALSE))

\* FileAttachment.to_dict
to_dict(a) == [path |-> a.path, size |-> size(a), content |-> b64encode(as_bytes(a))]

\* FileAttachment.save_to(directory): the place of the file written, or the
\* error of writing to a path that is the directory or one above it.
save_to(a, directory) ==
    LET file == Resolve(JoinParts(directory, a.path), <<>>)
        within == Resolve(PathParts(directory), <<>>)
    IN  IF IsPrefix(file, within)
        THEN [error |-> "IsADirectoryError", written |-> <<>>, content |-> <<>>]
        ELSE [error |-> "none", written |-> file, content |-> as_bytes(a)]

\* The parameters of from_path besides cls: (cls, file).
FromPathParams == 1
\* FileAttachment.from_path(file): cls(file.name, file.read_bytes())
from_path(e) == Attachment(e.name, e.content, FALSE)

\* ------------------------------------------------- inputs of the codec
MaxNameLen == 3
MaxContentLen == 4
MaxBytesLen == 2
MaxTextLen == 1

SeqsUpTo(S, n) == UNION {[1..k -> S] : k \in 0..n}

\* The names of the specification's examples.
EtcPasswd == <<"/", "e", "t", "c", "/", "p", "a", "s", "s", "w", "d">>
DotDotX == <<".", ".", "/", "x">>
ADotDotDotDotB == <<"a", "/", ".", ".", "/", ".", ".", "/", "b">>
ADotB == <<"a", "/", ".", "/", "b">>
OutResultTxt == <<"o", "u", "t", "/", "r", "e", "s", "u", "l", "t", ".", "t", "x", "t">>
\* "aGVsbG8=", the base64 of hello.
HelloB64 == <<"a", "G", "V", "s", "b", "G", "8", "=">>

NameInputs ==
    SeqsUpTo({"a", ".", "/", "\\"}, MaxNameLen)
        \cup {EtcPasswd, DotDotX, ADotDotDotDotB, ADotB, OutResultTxt}
\* "é" stands for any character that is not ASCII.
ContentInputs == SeqsUpTo({"Q", "=", "!"}, MaxContentLen) \cup {HelloB64, <<"é">>}

\* Contents of each kind: none, well formed, a lone character, padded, not
\* ASCII, and characters outside the alphabet.
ContentExamples == {<<>>, HelloB64, <<"Q">>, <<"Q", "Q", "=", "=">>, <<"é">>, <<"!", "=">>}
\* Names that from_dict accepts, plain and nested.
NameExamples == {<<"a">>, <<"a", "/", "a">>, OutResultTxt}

\* The transport dictionaries given to from_dict: every name with the content
\* examples and without content, and every content with the name examples.
DictInputs ==
    {[name |-> n, content |-> c] : n \in NameInputs, c \in ContentExamples}
        \cup {[name |-> n, content |-> c] : n \in NameExamples, c \in ContentInputs}
        \cup {[name |-> n] : n \in NameInputs}

\* The attachments constructed directly: bytes, and text of one to four UTF-8
\* bytes a character.
AttachmentInputs ==
    {Attachment(n, c, FALSE) : n \in NameInputs, c \in SeqsUpTo({0, 50, 255}, MaxBytesLen)}
        \cup {Attachment(n, c, TRUE) :
                n \in NameInputs, c \in SeqsUpTo({65, 233, 8364, 128512}, MaxTextLen)}

\* The directories save_to is given.
DirectoryInputs == {<<"/", "t">>, <<"/", "t", "/", "u">>, <<"/", "t", "/", "u", "/">>}

\* io when the codec is not in use.
NoDict == [none |-> <<>>]
NoSave == [error |-> "none", written |-> <<>>, content |-> <<>>]
IOOff == [pc |-> "off", data |-> NoDict, att |-> NoAttachment, orig |-> NoAttachment,
          res |-> Raised("none"), out |-> NoDict, saved |-> NoSave, dir |-> <<>>,
          validated |-> FALSE, rekeyed |-> FALSE]

\* ------------------------------------------------------------- Init

Init ==
    /\ assigned_names = {}
    /\ assignment_lock = 1
    /\ path = [t \in Threads |-> NoPath]
    /\ pc = [t \in Threads |-> "idle"]
    /\ attempt = [t \in Threads |-> 0]
    /\ name = [t \in Threads |-> NoPath]
    /\ err = [t \in Threads |-> "none"]
    /\ fs = [n \in Names |-> Absent]
    /\ yielded = [t \in Threads |-> {}]
    /\ io = IOOff

\* ------------------------------------------------- MemoryTempDir.__enter__
\* __enter__ is called on a new handle and finds the lock taken: the caller
\* waits at with self.assignment_lock.
EnterCall(t) ==
    /\ pc[t] = "idle"
    /\ path[t] = NoPath
    /\ assignment_lock = 0
    /\ pc' = [pc EXCEPT ![t] = "enter"]
    /\ err' = [err EXCEPT ![t] = "none"]
    /\ UNCHANGED <<assigned_names, assignment_lock, path, attempt, name, fs, yielded, io>>

\* EnterLock without the wait for the lock.
EnterLockUnguarded(t) ==
    /\ pc[t] \in {"idle", "enter"}
    /\ path[t] = NoPath
    /\ assignment_lock' = 0
    /\ pc' = [pc EXCEPT ![t] = "gen"]
    /\ attempt' = [attempt EXCEPT ![t] = 0]
    /\ err' = [err EXCEPT ![t] = "none"]
    /\ UNCHANGED <<assigned_names, path, name, fs, yielded, io>>

\* with self.assignment_lock: (entry), by a caller that finds the lock free or
\* by one that has waited for it.
EnterLock(t) ==
    /\ pc[t] \in {"idle", "enter"}
    /\ path[t] = NoPath
    /\ assignment_lock = 1
    /\ assignment_lock' = 0
    /\ pc' = [pc EXCEPT ![t] = "gen"]
    /\ attempt' = [attempt EXCEPT ![t] = 0]
    /\ err' = [err EXCEPT ![t] = "none"]
    /\ UNCHANGED <<assigned_names, path, name, fs, yielded, io>>

\* Collide with the loop running once more than range(10).
CollideOneMore(t) ==
    IF attempt[t] + 1 <= MaxAttempts
    THEN /\ attempt' = [attempt EXCEPT ![t] = attempt[t] + 1]
         /\ UNCHANGED <<assigned_names, assignment_lock, path, pc, name, err, fs, yielded, io>>
    ELSE /\ attempt' = [attempt EXCEPT ![t] = 0]
         /\ pc' = [pc EXCEPT ![t] = "failed"]
         /\ err' = [err EXCEPT ![t] = "RuntimeError"]
         /\ assignment_lock' = 1
         /\ UNCHANGED <<assigned_names, path, name, fs, yielded, io>>

\* What a loop iteration whose candidate is in the pool does: the next
\* iteration, or after the last one the else clause, raising RuntimeError out
\* of the with block (which releases the lock).
Collide(t) ==
    IF attempt[t] + 1 < MaxAttempts
    THEN /\ attempt' = [attempt EXCEPT ![t] = attempt[t] + 1]
         /\ UNCHANGED <<assigned_names, assignment_lock, path, pc, name, err, fs, yielded, io>>
    ELSE /\ attempt' = [attempt EXCEPT ![t] = 0]
         /\ pc' = [pc EXCEPT ![t] = "failed"]
         /\ err' = [err EXCEPT ![t] = "RuntimeError"]
         /\ assignment_lock' = 1
         /\ UNCHANGED <<assigned_names, path, name, fs, yielded, io>>

\* Generate with the name put into the pool as soon as it is found free.
GenerateReserves(t) ==
    /\ pc[t] = "gen"
    /\ \E n \in Names :
        IF n \notin assigned_names
        THEN /\ name' = [name EXCEPT ![t] = n]
             /\ assigned_names' = assigned_names \cup {n}
             /\ attempt' = [attempt EXCEPT ![t] = 0]
             /\ pc' = [pc EXCEPT ![t] = "mount"]
             /\ UNCHANGED <<assignment_lock, path, err, fs, yielded, io>>
        ELSE Collide(t)

\* One iteration of the loop: name = str(uuid4()); if name not in
\* self.assigned_names.
Generate(t) ==
    /\ pc[t] = "gen"
    /\ \E n \in Names :
        IF n \notin assigned_names
        THEN /\ name' = [name EXCEPT ![t] = n]
             /\ attempt' = [attempt EXCEPT ![t] = 0]
             /\ pc' = [pc EXCEPT ![t] = "mount"]
             /\ UNCHANGED <<assigned_names, assignment_lock, path, err, fs, yielded, io>>
        ELSE Collide(t)

\* self.path = mount_tmpfs(name), the mount succeeding or skipped.
Mount(t) ==
    /\ pc[t] = "mount"
    /\ fs' = [fs EXCEPT ![name[t]] = MountOk(fs[name[t]])]
    /\ path' = [path EXCEPT ![t] = name[t]]
    /\ pc' = [pc EXCEPT ![t] = "scaffold"]
    /\ UNCHANGED <<assigned_names, assignment_lock, attempt, name, err, yielded, io>>

\* mount_tmpfs(name) raising CalledProcessError: self.path is not assigned, the
\* with block releases the lock.
MountFail(t) ==
    /\ pc[t] = "mount"
    /\ MountCalls(fs[name[t]])
    /\ fs' = [fs EXCEPT ![name[t]] = MountFailed(fs[name[t]])]
    /\ pc' = [pc EXCEPT ![t] = "failed"]
    /\ err' = [err EXCEPT ![t] = "CalledProcessError"]
    /\ name' = [name EXCEPT ![t] = NoPath]
    /\ assignment_lock' = 1
    /\ UNCHANGED <<assigned_names, path, attempt, yielded, io>>

\* PoolAdd with the add forgotten.
PoolAddNothing(pool, n) == pool

\* The pool after self.assigned_names.add(name).
PoolAdd(pool, n) == pool \cup {n}

\* self.path.chmod(0o555); home.mkdir(); home.chmod(0o777);
\* self.assigned_names.add(name); return self (releasing the lock).
Scaffold(t) ==
    /\ pc[t] = "scaffold"
    /\ ~fs[name[t]].home
    /\ fs' = [fs EXCEPT ![name[t]] =
                [@ EXCEPT !.mode = Mode555, !.home = TRUE, !.homeMode = Mode777]]
    /\ assigned_names' = PoolAdd(assigned_names, name[t])
    /\ assignment_lock' = 1
    /\ pc' = [pc EXCEPT ![t] = "held"]
    /\ name' = [name EXCEPT ![t] = NoPath]
    /\ UNCHANGED <<path, attempt, err, yielded, io>>

\* ScaffoldFail with the lock kept when the failure leaves the block.
ScaffoldFailKeepsLock(t) ==
    /\ pc[t] = "scaffold"
    /\ fs' = [fs EXCEPT ![name[t]] = [@ EXCEPT !.mode = Mode555]]
    /\ pc' = [pc EXCEPT ![t] = "failed"]
    /\ err' = [err EXCEPT ![t] = "OSError"]
    /\ name' = [name EXCEPT ![t] = NoPath]
    /\ UNCHANGED <<assigned_names, assignment_lock, path, attempt, yielded, io>>

\* self.path.chmod(0o555), then home.mkdir() raising OSError (FileExistsError
\* when home exists): the name is not added, the with block releases the lock.
ScaffoldFail(t) ==
    /\ pc[t] = "scaffold"
    /\ fs' = [fs EXCEPT ![name[t]] = [@ EXCEPT !.mode = Mode555]]
    /\ pc' = [pc EXCEPT ![t] = "failed"]
    /\ err' = [err EXCEPT ![t] = "OSError"]
    /\ name' = [name EXCEPT ![t] = NoPath]
    /\ assignment_lock' = 1
    /\ UNCHANGED <<assigned_names, path, attempt, yielded, io>>

\* The caller drops a handle whose __enter__ raised, or one it has released,
\* and constructs another: MemoryTempDir.__init__.
NewHandle(t) ==
    /\ pc[t] \in {"failed", "released", "rereleased"}
    /\ pc' = [pc EXCEPT ![t] = "idle"]
    /\ path' = [path EXCEPT ![t] = NoPath]
    /\ err' = [err EXCEPT ![t] = "none"]
    /\ UNCHANGED <<assigned_names, assignment_lock, attempt, name, fs, yielded, io>>

\* ------------------------------------------- MemoryTempDir.allow_write
\* with d.allow_write(): entered. self.path.chmod(0o777), then yield.
AllowWriteEnter(t) ==
    /\ pc[t] = "held"
    /\ fs' = [fs EXCEPT ![path[t]] = [@ EXCEPT !.mode = Mode777]]
    /\ pc' = [pc EXCEPT ![t] = "elevated"]
    /\ err' = [err EXCEPT ![t] = "none"]
    /\ UNCHANGED <<assigned_names, assignment_lock, path, attempt, name, yielded, io>>

\* The mode of the root after the body of the with block returned: the
\* generator resumes after yield and runs self.path.chmod(0o555).
ModeAfterBody(mode) == Mode555

\* The mode of the root after the body of the with block raised: the exception
\* is thrown into the generator at the yield, which is in no try block, so the
\* chmod after it does not run.
ModeAfterRaise(mode) == mode

\* The body of the with block returns.
AllowWriteExit(t) ==
    /\ pc[t] = "elevated"
    /\ fs' = [fs EXCEPT ![path[t]] = [@ EXCEPT !.mode = ModeAfterBody(@)]]
    /\ pc' = [pc EXCEPT ![t] = "held"]
    /\ UNCHANGED <<assigned_names, assignment_lock, path, attempt, name, err, yielded, io>>

\* The body of the with block raises.
AllowWriteRaise(t) ==
    /\ pc[t] = "elevated"
    /\ fs' = [fs EXCEPT ![path[t]] = [@ EXCEPT !.mode = ModeAfterRaise(@)]]
    /\ pc' = [pc EXCEPT ![t] = "held"]
    /\ err' = [err EXCEPT ![t] = "BodyError"]
    /\ UNCHANGED <<assigned_names, assignment_lock, path, attempt, name, yielded, io>>

\* --------------------------------------------- MemoryTempDir.cleanup
\* cleanup() of a handle without a path: if self.path is None: return. The
\* handle is a new one ("idle") or one whose cleanup() has returned before.
CleanupNoPath(t) ==
    /\ pc[t] \in {"idle", "released", "rereleased"}
    /\ path[t] = NoPath
    /\ pc' = [pc EXCEPT ![t] = IF pc[t] = "idle" THEN "idle" ELSE "rereleased"]
    /\ err' = [err EXCEPT ![t] = "none"]
    /\ UNCHANGED <<assigned_names, assignment_lock, path, attempt, name, fs, yielded, io>>

\* CleanupStart with the lock taken for the whole of cleanup.
CleanupStartLocked(t) ==
    /\ pc[t] \in {"held", "released", "rereleased"}
    /\ path[t] # NoPath
    /\ assignment_lock = 1
    /\ assignment_lock' = 0
    /\ pc' = [pc EXCEPT ![t] = IF UmountCalls(fs[path[t]]) THEN "umount" ELSE "check"]
    /\ err' = [err EXCEPT ![t] = "none"]
    /\ UNCHANGED <<assigned_names, path, attempt, name, fs, yielded, io>>

\* cleanup() of a handle with a path: unmount_tmpfs(self.name) is entered, and
\* tests tmp.exists() and tmp.is_dir(). No lock is taken.
CleanupStart(t) ==
    /\ pc[t] \in {"held", "released", "rereleased"}
    /\ path[t] # NoPath
    /\ pc' = [pc EXCEPT ![t] = IF UmountCalls(fs[path[t]]) THEN "umount" ELSE "check"]
    /\ err' = [err EXCEPT ![t] = "none"]
    /\ UNCHANGED <<assigned_names, assignment_lock, path, attempt, name, fs, yielded, io>>

\* subprocess.check_call(["umount", ...]) returns.
Umount(t) ==
    /\ pc[t] = "umount"
    /\ UmountCanSucceed(fs[path[t]])
    /\ fs' = [fs EXCEPT ![path[t]] = Umounted(@)]
    /\ pc' = [pc EXCEPT ![t] = "rmtree"]
    /\ UNCHANGED <<assigned_names, assignment_lock, path, attempt, name, err, yielded, io>>

\* subprocess.check_call(["umount", ...]) raises CalledProcessError, out of
\* unmount_tmpfs and out of cleanup: self.path stays.
UmountFail(t) ==
    /\ pc[t] = "umount"
    /\ pc' = [pc EXCEPT ![t] = "held"]
    /\ err' = [err EXCEPT ![t] = "CalledProcessError"]
    /\ UNCHANGED <<assigned_names, assignment_lock, path, attempt, name, fs, yielded, io>>

\* rmtree(tmp, ignore_errors=True) removes the directory.
Rmtree(t) ==
    /\ pc[t] = "rmtree"
    /\ fs' = [fs EXCEPT ![path[t]] = Absent]
    /\ pc' = [pc EXCEPT ![t] = "check"]
    /\ UNCHANGED <<assigned_names, assignment_lock, path, attempt, name, err, yielded, io>>

\* rmtree(tmp, ignore_errors=True) fails and says nothing: the directory stays.
RmtreeFail(t) ==
    /\ pc[t] = "rmtree"
    /\ pc' = [pc EXCEPT ![t] = "check"]
    /\ UNCHANGED <<assigned_names, assignment_lock, path, attempt, name, err, fs, yielded, io>>

\* ReleasesName without the test of self.path.exists().
ReleasesNameAlways(d) == TRUE

\* if not self.path.exists(): cleanup removes the name exactly then.
ReleasesName(d) == ~d.exists

\* if not self.path.exists(): with self.assignment_lock: (entry)
CheckGone(t) ==
    /\ pc[t] = "check"
    /\ ReleasesName(fs[path[t]])
    /\ assignment_lock = 1
    /\ assignment_lock' = 0
    /\ pc' = [pc EXCEPT ![t] = "remove"]
    /\ UNCHANGED <<assigned_names, path, attempt, name, err, fs, yielded, io>>

\* else: logging.warning(...); self.path = None; cleanup returns.
CheckResidue(t) ==
    /\ pc[t] = "check"
    /\ ~ReleasesName(fs[path[t]])
    /\ path' = [path EXCEPT ![t] = NoPath]
    /\ pc' = [pc EXCEPT ![t] = "released"]
    /\ UNCHANGED <<assigned_names, assignment_lock, attempt, name, err, fs, yielded, io>>

\* self.assigned_names.remove(self.name), which raises KeyError for a name that
\* is not in the set; the with block releases the lock either way.
Remove(t) ==
    /\ pc[t] = "remove"
    /\ assignment_lock' = 1
    /\ IF path[t] \in assigned_names
       THEN /\ assigned_names' = assigned_names \ {path[t]}
            /\ pc' = [pc EXCEPT ![t] = "clear"]
            /\ UNCHANGED err
       ELSE /\ pc' = [pc EXCEPT ![t] = "held"]
            /\ err' = [err EXCEPT ![t] = "KeyError"]
            /\ UNCHANGED assigned_names
    /\ UNCHANGED <<path, attempt, name, fs, yielded, io>>

\* Clear with self.path = None forgotten.
ClearKeepsPath(t) ==
    /\ pc[t] = "clear"
    /\ pc' = [pc EXCEPT ![t] = "released"]
    /\ UNCHANGED <<assigned_names, assignment_lock, path, attempt, name, err, fs, yielded, io>>

\* self.path = None; cleanup returns.
Clear(t) ==
    /\ pc[t] = "clear"
    /\ path' = [path EXCEPT ![t] = NoPath]
    /\ pc' = [pc EXCEPT ![t] = "released"]
    /\ UNCHANGED <<assigned_names, assignment_lock, attempt, name, err, fs, yielded, io>>

\* ------------------------------------------------------ specification
Acquire(t) ==
    \/ EnterLock(t)
    \/ Generate(t)
    \/ Mount(t)
    \/ MountFail(t)
    \/ Scaffold(t)
    \/ ScaffoldFail(t)
    \/ NewHandle(t)

Elevate(t) ==
    \/ AllowWriteEnter(t)
    \/ AllowWriteExit(t)
    \/ AllowWriteRaise(t)

Release(t) ==
    \/ CleanupNoPath(t)
    \/ CleanupStart(t)
    \/ Umount(t)
    \/ UmountFail(t)
    \/ Rmtree(t)
    \/ RmtreeFail(t)
    \/ CheckGone(t)
    \/ CheckResidue(t)
    \/ Remove(t)
    \/ Clear(t)

Next == \E t \in Threads : Acquire(t) \/ Elevate(t) \/ Release(t)

Spec == Init /\ [][Next]_vars

\* ------------------------------------------- specification, with fairness
\* The callers as threads of one process; a caller that finds the lock taken
\* waits for it.
NextFair == \E t \in Threads : EnterCall(t) \/ Acquire(t) \/ Elevate(t) \/ Release(t)

\* A step of thread t inside __enter__ or cleanup that waits for nothing: a
\* statement of the method, or an OS call (mount, mkdir, umount, rmtree)
\* returning or raising.
Proceed(t) ==
    \/ Generate(t) \/ Mount(t) \/ MountFail(t) \/ Scaffold(t) \/ ScaffoldFail(t)
    \/ Umount(t) \/ UmountFail(t) \/ Rmtree(t) \/ RmtreeFail(t)
    \/ CheckResidue(t) \/ Remove(t) \/ Clear(t)

\* Thread t, waiting at with self.assignment_lock, gets the lock.
LockWait(t) == (pc[t] = "enter" /\ EnterLock(t)) \/ CheckGone(t)

\* The scheduler runs every thread that can run, OS calls return, and a
\* thread that waits for the lock is not passed over for ever: the lock is
\* free again and again, and a waiter gets it at last (strong fairness: with
\* weak fairness a waiter could lose the lock to another thread every time it
\* is free). Nothing makes a caller start an __enter__, an allow_write or a
\* cleanup.
Fairness == \A t \in Threads : WF_vars(Proceed(t)) /\ SF_vars(LockWait(t))

SpecFair == Init /\ [][NextFair]_vars /\ Fairness

\* ------------------------------------------- files of a held directory
\* The path of the directory named n: Path("/snekbox/memfs", name).
RootDir(n) ==
    <<"/", "s", "n", "e", "k", "b", "o", "x", "/", "m", "e", "m", "f", "s", "/">>
        \o <<ToString(n)>>

\* {"name": "input.py", "content": <base64 of print(1)>}
InputPy ==
    [name |-> <<"i", "n", "p", "u", "t", ".", "p", "y">>,
     content |-> <<"c", "H", "J", "p", "b", "n", "Q", "o", "M", "S", "k", "=">>]

\* Inside the bracket the caller saves an input attachment under the root:
\* FileAttachment.from_dict(...).save_to(d.path).
SaveInput(t) ==
    /\ pc[t] = "elevated"
    /\ LET r == from_dict(InputPy)
           w == save_to(r.att, RootDir(path[t]))
       IN  /\ r.tag = "ok"
           /\ w.error = "none"
           /\ fs' = [fs EXCEPT ![path[t]] =
                       [@ EXCEPT !.rootFiles = @ \cup {[at |-> w.written, content |-> w.content]}]]
    /\ UNCHANGED <<assigned_names, assignment_lock, path, pc, attempt, name, err, yielded, io>>

\* What the executed code leaves in home: files and directories, with and
\* without the prefix `output`; output.txt holds the two bytes of 42.
HomeCandidates ==
    { [name |-> <<"o", "u", "t", "p", "u", "t", ".", "t", "x", "t">>, kind |-> "file",
       content |-> <<52, 50>>],
      [name |-> <<"o", "u", "t", "p", "u", "t", "s">>, kind |-> "dir", content |-> <<>>],
      [name |-> <<"o", "u", "t", ".", "t", "x", "t">>, kind |-> "file", content |-> <<52>>] }

\* The executed code creates an entry in home.
CreateEntry(t) ==
    /\ pc[t] = "held"
    /\ fs[path[t]].home
    /\ \E e \in HomeCandidates :
        /\ e \notin fs[path[t]].homeEntries
        /\ fs' = [fs EXCEPT ![path[t]] = [@ EXCEPT !.homeEntries = @ \cup {e}]]
    /\ UNCHANGED <<assigned_names, assignment_lock, path, pc, attempt, name, err, yielded, io>>

\* d.attachments() is called: a generator, nothing of its body has run.
AttachmentsCall(t) ==
    /\ pc[t] = "held"
    /\ pc' = [pc EXCEPT ![t] = "listing"]
    /\ yielded' = [yielded EXCEPT ![t] = {}]
    /\ err' = [err EXCEPT ![t] = "none"]
    /\ UNCHANGED <<assigned_names, assignment_lock, path, attempt, name, fs, io>>

\* self.home.glob("output*"): the entries of home whose name begins with output.
OutputPrefix == <<"o", "u", "t", "p", "u", "t">>
Globbed(d) == {e \in d.homeEntries : IsPrefix(OutputPrefix, e.name)}

\* if file.is_file()
RegularFiles(entries) == {e \in entries : e.kind = "file"}

\* The arguments attachments passes to from_path: (file, MAX_FILE_SIZE).
AttachmentsArgs == 2

\* The caller iterates the generator to its end. The call of from_path for the
\* first regular file raises TypeError when the arguments are not the
\* parameters; entries that are no regular files yield nothing before it.
AttachmentsRun(t) ==
    /\ pc[t] = "listing"
    /\ pc' = [pc EXCEPT ![t] = "held"]
    /\ LET files == RegularFiles(Globbed(fs[path[t]])) IN
        IF files # {} /\ AttachmentsArgs # FromPathParams
        THEN /\ err' = [err EXCEPT ![t] = "TypeError"]
             /\ UNCHANGED yielded
        ELSE /\ yielded' = [yielded EXCEPT ![t] = {from_path(e) : e \in files}]
             /\ UNCHANGED err
    /\ UNCHANGED <<assigned_names, assignment_lock, path, attempt, name, fs, io>>

Files(t) ==
    \/ SaveInput(t)
    \/ CreateEntry(t)
    \/ AttachmentsCall(t)
    \/ AttachmentsRun(t)

\* One caller, using one directory at a time.
NextUse ==
    LET t == CHOOSE x \in Threads : TRUE
    IN  Acquire(t) \/ Elevate(t) \/ Release(t) \/ Files(t)

SpecUse == Init /\ [][NextUse]_vars

\* ------------------------------------------------- the codec, applied
\* The input is a transport dictionary or an attachment.
InitIO ==
    /\ assigned_names = {}
    /\ assignment_lock = 1
    /\ path = [t \in Threads |-> NoPath]
    /\ pc = [t \in Threads |-> "idle"]
    /\ attempt = [t \in Threads |-> 0]
    /\ name = [t \in Threads |-> NoPath]
    /\ err = [t \in Threads |-> "none"]
    /\ fs = [n \in Names |-> Absent]
    /\ yielded = [t \in Threads |-> {}]
    /\ \/ \E d \in DictInputs : io = [IOOff EXCEPT !.pc = "dict", !.data = d]
       \/ \E a \in AttachmentInputs : io = [IOOff EXCEPT !.pc = "att", !.att = a, !.orig = a]

\* FileAttachment.from_dict(data)
IOFromDict ==
    /\ io.pc = "dict"
    /\ LET r == from_dict(io.data) IN
        io' = [io EXCEPT !.pc = IF r.tag = "ok" THEN "parsed" ELSE "raised",
                         !.res = r, !.att = r.att, !.validated = (r.tag = "ok")]
    /\ UNCHANGED memvars

\* a.to_dict()
IOToDict ==
    /\ io.pc = "att"
    /\ io' = [io EXCEPT !.pc = "out", !.out = to_dict(io.att)]
    /\ UNCHANGED memvars

\* FileAttachment.from_dict(a.to_dict())
IORoundTrip ==
    /\ io.pc = "out"
    /\ io' = [io EXCEPT !.pc = "round", !.res = from_dict(io.out)]
    /\ UNCHANGED memvars

\* The caller makes a transport dictionary for from_dict of what to_dict
\* returned: its path under the key name, and its content.
IORekey ==
    /\ io.pc = "out"
    /\ io' = [io EXCEPT !.pc = "dict", !.rekeyed = TRUE,
                        !.data = [name |-> io.out.path, content |-> io.out.content]]
    /\ UNCHANGED memvars

\* a.save_to(directory)
IOSaveTo ==
    /\ io.pc \in {"parsed", "att"}
    /\ \E d \in DirectoryInputs :
        io' = [io EXCEPT !.pc = "saved", !.dir = d, !.saved = save_to(io.att, d)]
    /\ UNCHANGED memvars

NextIO == IOFromDict \/ IOToDict \/ IORoundTrip \/ IORekey \/ IOSaveTo

SpecIO == InitIO /\ [][NextIO]_vars

\* ------------------------------------------------------------- claims
\* Thread t's handle is live: its __enter__ returned, and no cleanup of it has
\* yet given its name back to the pool. (In "clear" the cleanup has removed the
\* directory and the name, and only self.path = None is left to do.)
Live(t) == pc[t] \in {"held", "elevated", "umount", "rmtree", "check", "remove"}

\* C1: the names held by handles that are live at the same time are pairwise
\* distinct, in every interleaving of acquires and releases.
C1_LiveNamesDistinct ==
    \A a, b \in Threads : (a # b /\ Live(a) /\ Live(b)) => path[a] # path[b]

\* C1 witness: two handles are live at once, one of them being released.
C1_TwoLive ==
    \E a, b \in Threads : a # b /\ pc[a] = "held" /\ pc[b] = "umount" /\ path[a] # path[b]

\* The name n is reserved by a cleanup whose directory removal failed: it is in
\* the pool, its directory exists, and no handle has it.
Residue(n) ==
    /\ n \in assigned_names
    /\ fs[n].exists
    /\ \A t \in Threads : path[t] # n /\ name[t] # n

\* Thread t's cleanup passes the test of self.path.exists() in this step, and
\* with it decides what becomes of the name.
CleanupDecides(t) ==
    \/ pc[t] = "check" /\ pc'[t] = "released"
    \/ pc[t] = "remove" /\ pc'[t] # "remove"

\* C2: a cleanup removes the name of its directory from the pool if and only
\* if the root path does not exist after unmount_tmpfs returned; a name whose
\* directory removal failed stays in the pool and no later acquire ever has it.
C2_ReleaseRemovesIffGone ==
    [][ /\ \A t \in Threads : CleanupDecides(t) =>
              ((path[t] \notin assigned_names') <=> ~fs'[path[t]].exists)
        /\ \A n \in Names : Residue(n) => Residue(n)' ]_vars

\* C2 witness: with a name left reserved by a failed removal and nothing else
\* in the pool, a later acquire has generated that name and passed it over.
C2_ResiduePassedOver ==
    \E n \in Names, t \in Threads :
        /\ Residue(n)
        /\ assigned_names = {n}
        /\ pc[t] = "gen"
        /\ attempt[t] > 0

\* C3: inside the allow_write bracket the root is fully writable, and on every
\* exit of the bracket, by return and by a raised failure, the root is back to
\* read+execute-only (0o555).
C3_RestoredOnEveryExit ==
    /\ [](\A t \in Threads : pc[t] = "elevated" => FullyWritable(fs[path[t]].mode))
    /\ [][\A t \in Threads : (pc[t] = "elevated" /\ pc'[t] # "elevated") =>
              ReadExecOnly(fs'[path[t]].mode)]_vars

\* A path segment made of dot characters only.
AllDots(seg) == seg # <<>> /\ \A i \in 1..Len(seg) : seg[i] = "."

\* A path segment with a path separator character in it.
ContainsSeparator(seg) == \E i \in 1..Len(seg) : seg[i] = "/" \/ seg[i] = "\\"

\* A legal relative path: it is not empty, has no absolute form, no path
\* separator in its first segment, and no segment made of dots only.
LegalRelative(n) ==
    /\ n # <<>>
    /\ n[1] # "/"
    /\ ~ContainsSeparator(Segments(n)[1])
    /\ \A i \in 1..Len(Segments(n)) : ~AllDots(Segments(n)[i])

\* The place f is strictly inside the directory at d.
StrictlyInside(f, d) == Len(f) > Len(d) /\ SubSeq(f, 1, Len(d)) = d

\* C4: for every attachment that from_dict accepts, save_to(directory) writes
\* its file at a place strictly inside directory.
C4_SavedInside ==
    (io.pc = "saved" /\ io.validated) =>
        /\ io.saved.error = "none"
        /\ StrictlyInside(io.saved.written, Resolve(PathParts(io.dir), <<>>))

\* C4 witness: an accepted attachment with a nested path has been saved.
C4_SavedNested ==
    /\ io.pc = "saved"
    /\ io.validated
    /\ Len(io.saved.written) > Len(PathParts(io.dir)) + 1

\* from_dict has been applied to an input dictionary.
Decoded == io.pc \in {"parsed", "raised"} /\ ~io.rekeyed

WellFormedB64(c) ==
    /\ Len(c) % 4 = 0
    /\ \E k \in 0..2 :
        /\ k <= Len(c)
        /\ \A i \in 1..(Len(c) - k) : c[i] \in B64Chars
        /\ \A i \in (Len(c) - k + 1)..Len(c) : c[i] = "="

\* C6: from_dict given a legal relative path and content that is no
\* well-formed base64 raises ParsingError.
C6_MalformedRaisesParsingError ==
    (/\ Decoded
     /\ LegalRelative(io.data.name)
     /\ "content" \in DOMAIN io.data
     /\ ~WellFormedB64(io.data.content))
        => io.res.tag = "ParsingError"

\* The attachments the claim expects of a home directory: one for each
\* regular file whose name begins with output.
ExpectedAttachments(d) ==
    {Attachment(e.name, e.content, FALSE) :
        e \in {x \in d.homeEntries : x.kind = "file" /\ IsPrefix(OutputPrefix, x.name)}}

\* C7: attachments() yields exactly one Attachment for each regular file
\* directly under home whose name begins with output and none for other
\* entries; with home/output.txt holding the two bytes 42 it yields one
\* Attachment of path output.txt, size 2 and content 42.
C7_YieldsOutputFiles ==
    [][\A t \in Threads : (pc[t] = "listing" /\ pc'[t] = "held") =>
          /\ err'[t] = "none"
          /\ yielded'[t] = ExpectedAttachments(fs[path[t]])]_vars

\* C8, as claimed: from_dict(to_dict(a)) returns an attachment equal to a, for
\* a of binary content and a legal relative path.
C8_RoundTrip ==
    (io.pc = "round" /\ ~io.orig.text /\ LegalRelative(io.orig.path)) =>
        (io.res.tag = "ok" /\ io.res.att = io.orig)

\* C8, amended: from_dict of the dictionary holding to_dict(a)'s path under
\* the key name and to_dict(a)'s content returns an attachment equal to a,
\* for a of binary content and a legal relative path.
C8_RoundTripRekeyed ==
    (/\ io.rekeyed
     /\ io.pc \in {"parsed", "raised"}
     /\ ~io.orig.text
     /\ LegalRelative(io.orig.path)) =>
        (io.res.tag = "ok" /\ io.res.att = io.orig)

\* C8 witness: an attachment of two bytes under a nested path has come back.
C8_CameBack ==
    /\ io.rekeyed
    /\ io.pc = "parsed"
    /\ ~io.orig.text
    /\ Len(io.orig.content) >= 2
    /\ Len(PathParts(io.orig.path)) >= 2
    /\ io.res.att = io.orig

\* C9: for every attachment, of text as well as of bytes, size and the size
\* entry of to_dict are the byte length of as_bytes().
C9_SizeIsByteLength ==
    io.pc = "out" =>
        /\ size(io.att) = Len(as_bytes(io.att))
        /\ io.out.size = Len(as_bytes(io.att))

\* Thread t takes a step of the loop of __enter__.
LoopStep(t) == pc[t] = "gen" /\ (pc'[t] # "gen" \/ attempt'[t] # attempt[t])

\* C10: an acquire whose 10 candidates are all in the pool raises the name
\* exhaustion error, having mounted nothing, with the pool and the filesystem
\* as they were and the handle without a path. (In "gen" with attempt[t] = k the
\* acquire has generated k candidates, all in the pool; the tenth either is
\* free, or ends the acquire.)
C10_Exhaustion ==
    /\ [](\A t \in Threads : pc[t] = "gen" =>
              /\ path[t] = NoPath
              /\ attempt[t] < MaxAttempts
              /\ assignment_lock = 0)
    /\ [][\A t \in Threads : LoopStep(t) =>
              \/ /\ pc'[t] = "mount"
                 /\ name'[t] \notin assigned_names
              \/ /\ pc'[t] = "gen"
                 /\ attempt'[t] = attempt[t] + 1
                 /\ attempt'[t] < MaxAttempts
                 /\ UNCHANGED <<assigned_names, fs, path>>
              \/ /\ attempt[t] = MaxAttempts - 1
                 /\ pc'[t] = "failed"
                 /\ err'[t] = "RuntimeError"
                 /\ path'[t] = NoPath
                 /\ assignment_lock' = 1
                 /\ UNCHANGED <<assigned_names, fs>>]_vars

\* C10 witness: an acquire has failed for want of a free name.
C10_Exhausted ==
    \E t \in Threads : pc[t] = "failed" /\ err[t] = "RuntimeError" /\ path[t] = NoPath

\* ----------------------------------------------------------------- C11
\* A cleanup() of thread t's handle has returned after tearing the directory
\* down, and the handle has not been replaced since.
Released(t) == pc[t] \in {"released", "rereleased"}

\* C11: release is idempotent. Once a cleanup of a handle has returned, the
\* handle has no path, and any further cleanup of it returns at once: it runs
\* no unmount and no removal (the directories stay as they are), it changes
\* neither the pool nor the lock, and it raises nothing.
C11_ReleaseIdempotent ==
    [][ \A t \in Threads : Released(t) =>
            /\ path[t] = NoPath
            /\ pc'[t] \notin {pc[t], "idle"} =>
                  /\ pc'[t] = "rereleased"
                  /\ err'[t] = "none"
                  /\ path'[t] = NoPath
                  /\ UNCHANGED <<assigned_names, assignment_lock, fs>> ]_vars

\* C11 witness: two handles have each been released a second time; the first
\* release of one left its directory behind (the name stays reserved), the
\* first release of the other removed directory and name.
C11_ReleasedTwice ==
    \E a, b \in Threads, n \in Names :
        /\ a # b
        /\ pc[a] = "rereleased"
        /\ pc[b] = "rereleased"
        /\ Residue(n)
        /\ assigned_names = {n}
        /\ \A m \in Names \ {n} : ~fs[m].exists

\* ----------------------------------------------------------------- C12
\* No __enter__ and no cleanup is in progress on any thread.
Quiescent ==
    \A t \in Threads :
        pc[t] \in {"idle", "failed", "held", "elevated", "listing", "released", "rereleased"}

\* C12: whenever no acquire and no release is in progress, a name is in the
\* pool if and only if its directory exists, also after a failed mount, a
\* failed home.mkdir, a failed umount or a failed rmtree; and no step removes a
\* name from the pool while its directory exists.
C12_PoolIffDirectory ==
    /\ [](Quiescent => \A n \in Names : n \in assigned_names <=> fs[n].exists)
    /\ [][ \A n \in Names :
              n \in assigned_names /\ n \notin assigned_names' => ~fs[n].exists ]_vars

\* ----------------------------------------------------------------- C13
\* The directory is as mount_tmpfs leaves one it has just mounted: chmod(0o711)
\* is its last step, no other code sets that mode, and __enter__ replaces it by
\* 0o555 before it gives the lock back, so a directory that mount_tmpfs found
\* existing and returned without mounting never has it.
JustMounted(d) == d.exists /\ d.mounted /\ d.mode = Mode711

\* C13: every handle __enter__ returns is backed by a filesystem that this
\* __enter__ mounted; mount_tmpfs never skipped the mount for it.
C13_ReturnedFreshlyMounted ==
    [][ \A t \in Threads :
            pc[t] = "scaffold" /\ pc'[t] = "held" => JustMounted(fs[name[t]]) ]_vars

\* ----------------------------------------------------------------- C14
\* Thread t is between the uniqueness check of a candidate name and the
\* insertion of the name into the pool: in the loop of __enter__, in
\* mount_tmpfs, or at the chmod and the creation of home.
Provisioning(t) == pc[t] \in {"gen", "mount", "scaffold"}

\* Thread t is inside a with self.assignment_lock block.
InLockBlock(t) == pc[t] \in {"gen", "mount", "scaffold", "remove"}

\* C14: provisioning is mutually exclusive, and is done in one hold of the
\* lock: while a thread is provisioning the lock is taken and no other thread
\* is inside a block of the lock, so no other thread is provisioning and the
\* lock has not changed hands since the uniqueness check.
C14_ProvisioningExclusive ==
    \A t \in Threads : Provisioning(t) =>
        /\ assignment_lock = 0
        /\ \A u \in Threads \ {t} : ~InLockBlock(u)

\* C14 witness: one thread is provisioning, past the mount, while another has
\* its directory removed and waits for the lock to take its name out.
C14_OneProvisionsOneWaits ==
    \E a, b \in Threads :
        /\ a # b
        /\ pc[a] = "scaffold"
        /\ pc[b] = "check"
        /\ ~fs[path[b]].exists

\* ----------------------------------------------------------------- C15
\* Thread t's cleanup is inside unmount_tmpfs: at the umount or at the rmtree.
Unmounting(t) == pc[t] \in {"umount", "rmtree"}

\* Thread t's cleanup is before its with self.assignment_lock block: inside
\* unmount_tmpfs or at the test of self.path.exists().
CleanupUnlocked(t) == Unmounting(t) \/ pc[t] = "check"

\* C15: a cleanup does not hold the lock while it unmounts and removes the
\* directory, nor at the test that follows; it takes the lock for the removal
\* of the name only. Whenever the lock is taken while a cleanup is at one of
\* these steps, another thread is inside a block of the lock.
C15_UnmountsUnlocked ==
    \A t \in Threads : CleanupUnlocked(t) /\ assignment_lock = 0 =>
        \E u \in Threads \ {t} : InLockBlock(u)

\* C15 witness: two cleanups of different directories are inside unmount_tmpfs
\* at the same time.
C15_TwoUnmounting ==
    \E a, b \in Threads :
        /\ a # b
        /\ path[a] # path[b]
        /\ pc[a] = "umount"
        /\ pc[b] \in {"umount", "rmtree"}

\* C15, the other case the claim names: an __enter__ holds the lock while a
\* cleanup is inside unmount_tmpfs. This state is reached as well.
C15_AcquireDuringUnmount ==
    \E a, b \in Threads : a # b /\ Unmounting(a) /\ Provisioning(b)

\* ----------------------------------------------------------------- C16
\* C16: from the return of __enter__ until cleanup is called, a handle that is
\* not inside an allow_write bracket has a root of mode 0o555 and a home of
\* mode 0o777; the root is fully writable only inside a bracket; and the name
\* is in the pool throughout.
C16_PermissionInvariant ==
    \A t \in Threads :
        /\ pc[t] \in {"held", "listing"} =>
              /\ fs[path[t]].mode = Mode555
              /\ fs[path[t]].homeMode = Mode777
              /\ path[t] \in assigned_names
        /\ pc[t] = "elevated" =>
              /\ fs[path[t]].mode = Mode777
              /\ fs[path[t]].homeMode = Mode777
              /\ path[t] \in assigned_names

\* ----------------------------------------------------------------- C17
\* Thread t's __enter__ is under way and has not reached the insertion.
Entering(t) == pc[t] \in {"gen", "mount"}

\* C17: a failure of `mount` in __enter__ and a failure of `umount` in cleanup
\* reach the caller as CalledProcessError, and the pool is as it was before the
\* operation. No step taken while an __enter__ is before its insertion changes
\* the pool, so the __enter__ that fails at the mount has registered nothing;
\* no step of a cleanup up to and including the failing umount changes the
\* pool, and the name of its directory is in the pool after it.
C17_FailedCallKeepsPool ==
    [][ \A t \in Threads :
            /\ Entering(t) => assigned_names' = assigned_names
            /\ pc[t] = "mount" /\ pc'[t] = "failed" =>
                  /\ err'[t] = "CalledProcessError"
                  /\ path'[t] = NoPath
            /\ pc[t] = "held" /\ pc'[t] = "umount" => assigned_names' = assigned_names
            /\ pc[t] = "umount" /\ pc'[t] = "held" =>
                  /\ err'[t] = "CalledProcessError"
                  /\ assigned_names' = assigned_names
                  /\ path'[t] = path[t]
                  /\ path[t] \in assigned_names' ]_vars

\* C17 witness: one thread's __enter__ has failed at the mount and another
\* thread's cleanup has failed at the umount, its name still in the pool.
C17_BothFailed ==
    \E a, b \in Threads :
        /\ a # b
        /\ pc[a] = "failed" /\ err[a] = "CalledProcessError"
        /\ pc[b] = "held" /\ err[b] = "CalledProcessError"
        /\ path[b] \in assigned_names

\* ----------------------------------------------------------------- C18
\* Thread t is executing __enter__ or cleanup: it has called the method, which
\* has neither returned nor raised.
InCall(t) ==
    pc[t] \in {"enter", "gen", "mount", "scaffold", "umount", "rmtree", "check", "remove", "clear"}

C19_ReturnsOrAttachmentError ==
    (Decoded /\ "name" \in DOMAIN io.data) =>
        \/ io.res.tag = "ok" /\ ~io.res.att.text
        \/ io.res.tag \in AttachmentErrors


====
